---- MODULE Spec2Model ----
(***************************************************************************)
(* Model of mpinets/run_training.py: the orchestration of one training     *)
(* run (argument and configuration resolution with the reproducibility     *)
(* gate, logger setup, trainer setup with the execution strategy and the   *)
(* two checkpoint triggers, collaborator construction, fit).               *)
(*                                                                         *)
(* Python values are encoded as tagged records so that values of one       *)
(* configuration key always compare:                                       *)
(*   numbers   [t |-> "None" | "int" | "float", n |-> Int]  (a float's n   *)
(*             is its value in tenths: 0.5 is [t |-> "float", n |-> 5])    *)
(*   gpus      [t |-> "int" | "list", n |-> Int, ids |-> Seq(Int)]         *)
(*   paths     [t |-> "None" | "str", abs |-> BOOLEAN, parts |-> Seq(STR)] *)
(*   mappings  [t |-> "None" | "dict", d |-> function on its keys]         *)
(* A Python dict is a TLA+ function on its keys; {**a, **b} is b @@ a.     *)
(***************************************************************************)
EXTENDS Integers, Sequences, FiniteSets, TLC

VARIABLES
    pc,               \* position of the run in run() / parse_args_and_configuration()
    args,             \* the argparse namespace (vars(args))
    tree,             \* the git working tree: [modified, untracked]
    file,             \* the content of the yaml_config file
    answer,           \* confirm_allow_dirty_repo's local `answer`
    config,           \* the mapping parse_args_and_configuration returns
    err,              \* the exception that ended the run, if any
    logger,           \* the WandbLogger of the run (or None)
    call,             \* the arguments of the setup_trainer call
    trainer,          \* the pl.Trainer setup_trainer returned
    dm,               \* the DataModule
    mdl,              \* the TrainingMotionPolicyNetwork
    epoch,            \* the fit loop's current epoch
    ckpt_files,       \* the checkpoint files on disk: {[path, writer]}
    last_model_path   \* each installed ModelCheckpoint's last_model_path

vars == <<pc, args, tree, file, answer, config, err, logger, call, trainer,
          dm, mdl, epoch, ckpt_files, last_model_path>>

----------------------------------------------------------------------------
(* Bounds of the model *)

MaxGpus == 4          \* device counts range over -1..MaxGpus, lists up to that length
MaxEpochs == 2        \* the fit loop is followed for at most this many epochs
MaxMissing == 1       \* the configuration file omits at most this many required keys

----------------------------------------------------------------------------
(* Python values *)

EmptyDict == <<>>

PyNone == [t |-> "None", n |-> 0]
PyInt(n) == [t |-> "int", n |-> n]
PyFloatTenths(n) == [t |-> "float", n |-> n]

GpuInt(n) == [t |-> "int", n |-> n, ids |-> <<>>]
GpuList(ids) == [t |-> "list", n |-> 0, ids |-> ids]

NoPathStr == [t |-> "None", abs |-> FALSE, parts |-> <<>>]
AbsPath(parts) == [t |-> "str", abs |-> TRUE, parts |-> parts]
RelPath(parts) == [t |-> "str", abs |-> FALSE, parts |-> parts]

NoneDict == [t |-> "None", d |-> EmptyDict]
Dict(d) == [t |-> "dict", d |-> d]

\* {**a, **b}: the right-most mapping wins on a key collision
DictMerge(a, b) == b @@ a

NoErr == [type |-> "", at |-> "", key |-> ""]
Raise(type, at, key) == [type |-> type, at |-> at, key |-> key]

----------------------------------------------------------------------------
(* setup_trainer *)

LimitTrainBatches == 10
LimitValBatches == 3
TestValidationInterval == 2
TestMaxEpochs == 1
FullMaxEpochs == 500

\* if test: args = {**args, "limit_train_batches": 10, "limit_val_batches": 3}
TestArgs(test) ==
    IF test
    THEN [limit_train_batches |-> LimitTrainBatches,
          limit_val_batches |-> LimitValBatches]
    ELSE EmptyDict

ResolvedValidationInterval_Requested(test, validation_interval) ==
    validation_interval

\* if test: validation_interval = 2
ResolvedValidationInterval(test, validation_interval) ==
    IF test THEN PyInt(TestValidationInterval) ELSE validation_interval

MoreThanOneDevice_AtLeastOne(gpus) ==
    \/ gpus.t = "list" /\ Len(gpus.ids) >= 1
    \/ gpus.t = "int" /\ gpus.n >= 1

\* (isinstance(gpus, list) and len(gpus) > 1) or (isinstance(gpus, int) and gpus > 1)
MoreThanOneDevice(gpus) ==
    \/ gpus.t = "list" /\ Len(gpus.ids) > 1
    \/ gpus.t = "int" /\ gpus.n > 1

DDPStrategy(find_unused_parameters) ==
    [name |-> "DDPStrategy", find_unused_parameters |-> find_unused_parameters]

StrategyArgs(gpus) ==
    IF MoreThanOneDevice(gpus)
    THEN [strategy |-> DDPStrategy(FALSE)]
    ELSE EmptyDict

\* if validation_interval is not None: args = {**args, "val_check_interval": ...}
ValCheckArgs(validation_interval) ==
    IF validation_interval.t # "None"
    THEN [val_check_interval |-> validation_interval]
    ELSE EmptyDict

\* the keyword arguments collected in `args` (lines 47-60)
TrainerArgs(gpus, test, validation_interval) ==
    DictMerge(DictMerge(DictMerge(EmptyDict, TestArgs(test)), StrategyArgs(gpus)),
              ValCheckArgs(ResolvedValidationInterval(test, validation_interval)))

NoLogger == [t |-> "None", id |-> "", name |-> "", watching |-> FALSE]
WandbLogger(name, id) == [t |-> "WandbLogger", id |-> id, name |-> name, watching |-> FALSE]

\* PROJECT_ROOT = str(Path(__file__).resolve().parent.parent): a str
PROJECT_ROOT == [t |-> "str", abs |-> TRUE, parts |-> <<"repo">>]

\* the working directory Path.resolve() makes a relative path absolute against
Cwd == <<"repo", "jobs">>

\* Path(checkpoint_dir).resolve()
Resolve(p) == IF p.abs THEN p.parts ELSE Cwd \o p.parts

NoDirPath == <<>>

\* lines 68-71.  With a directory given, Path(checkpoint_dir).resolve() /
\* experiment_id.  Without one, PROJECT_ROOT / "checkpoints": PROJECT_ROOT is
\* a str, and str / str raises TypeError.
DirPath(checkpoint_dir, experiment_id) ==
    IF checkpoint_dir.t # "None"
    THEN [raised |-> "", path |-> Append(Resolve(checkpoint_dir), experiment_id)]
    ELSE [raised |-> "TypeError", path |-> NoDirPath]

\* ModelCheckpoint.CHECKPOINT_NAME_LAST, as a template of tokens
DefaultCheckpointNameLast == <<"last">>

EpochEndCheckpointNameLast_Default == DefaultCheckpointNameLast

\* epoch_end_checkpoint.CHECKPOINT_NAME_LAST = "epoch-{epoch}-end"
EpochEndCheckpointNameLast == <<"epoch-", "{epoch}", "-end">>

\* every_n_checkpoint (lines 73-78)
EveryNCheckpoint(dirpath, checkpoint_interval) ==
    [kind |-> "every_n", monitor |-> "val_loss", save_last |-> TRUE,
     dirpath |-> dirpath, train_time_interval |-> checkpoint_interval,
     save_on_train_epoch_end |-> FALSE,
     CHECKPOINT_NAME_LAST |-> DefaultCheckpointNameLast]

\* epoch_end_checkpoint (lines 79-85)
EpochEndCheckpoint(dirpath) ==
    [kind |-> "epoch_end", monitor |-> "val_loss", save_last |-> TRUE,
     dirpath |-> dirpath, train_time_interval |-> PyNone,
     save_on_train_epoch_end |-> TRUE,
     CHECKPOINT_NAME_LAST |-> EpochEndCheckpointNameLast]

\* callbacks (lines 61, 67-86), given the resolved directory
Callbacks(should_checkpoint, dirpath, checkpoint_interval) ==
    IF should_checkpoint
    THEN <<EveryNCheckpoint(dirpath, checkpoint_interval), EpochEndCheckpoint(dirpath)>>
    ELSE <<>>

\* pl.Trainer(enable_checkpointing=should_log, ...)  (line 89)
EnableCheckpointing(should_log, should_checkpoint) == should_log

NoTrainer ==
    [built |-> FALSE, enable_checkpointing |-> FALSE, callbacks |-> <<>>,
     max_epochs |-> 0, gpus |-> GpuInt(0), logger |-> NoLogger,
     kwargs |-> EmptyDict, dirpath |-> NoDirPath, experiment_id |-> ""]

\* pl.Trainer(...) (lines 88-97)
Trainer(c, experiment_id, dirpath) ==
    [built |-> TRUE,
     enable_checkpointing |-> EnableCheckpointing(c.should_log, c.should_checkpoint),
     callbacks |-> Callbacks(c.should_checkpoint, dirpath, c.checkpoint_interval),
     max_epochs |-> IF c.test THEN TestMaxEpochs ELSE FullMaxEpochs,
     gpus |-> c.gpus,
     logger |-> c.logger,
     kwargs |-> TrainerArgs(c.gpus, c.test, c.validation_interval),
     dirpath |-> dirpath,
     experiment_id |-> experiment_id]

\* setup_trainer(c.gpus, c.test, ...) with uuid the value uuid.uuid1() would give:
\* [raised, trainer]
SetupTrainer(c, uuid) ==
    IF c.should_log /\ c.logger.t = "None"
    THEN [raised |-> "AssertionError", trainer |-> NoTrainer]
    ELSE LET experiment_id == IF c.should_log THEN c.logger.id ELSE uuid
             dir == IF c.should_checkpoint
                    THEN DirPath(c.checkpoint_dir, experiment_id)
                    ELSE [raised |-> "", path |-> NoDirPath]
         IN  IF dir.raised # ""
             THEN [raised |-> dir.raised, trainer |-> NoTrainer]
             ELSE [raised |-> "", trainer |-> Trainer(c, experiment_id, dir.path)]

----------------------------------------------------------------------------
(* trainer.fit: the two checkpoint triggers.  ModelCheckpoint is the        *)
(* library's; what a firing does to the "latest" artifact follows the       *)
(* checkpoint policy's description: a trigger with save_last writes the     *)
(* file named by its CHECKPOINT_NAME_LAST in its dirpath and, when that     *)
(* is a new path, removes the latest artifact it wrote before.              *)

NoLastPath == [dir |-> <<>>, name |-> <<>>]

\* format_checkpoint_name: the template with {epoch} filled in
FormatCheckpointName(template, e) ==
    [i \in DOMAIN template |->
        IF template[i] = "{epoch}" THEN "epoch=" \o ToString(e) ELSE template[i]]

WriteFile(files, path, writer) ==
    {f \in files : f.path # path} \cup {[path |-> path, writer |-> writer]}

RemoveFile(files, path) == {f \in files : f.path # path}

IsInstalled(kind) ==
    \E i \in DOMAIN trainer.callbacks : trainer.callbacks[i].kind = kind

CallbackOf(kind) ==
    trainer.callbacks[CHOOSE i \in DOMAIN trainer.callbacks :
                          trainer.callbacks[i].kind = kind]

\* the trigger `kind` saves its latest artifact
SaveLast(kind) ==
    LET cb == CallbackOf(kind)
        filepath == [dir |-> cb.dirpath,
                     name |-> FormatCheckpointName(cb.CHECKPOINT_NAME_LAST, epoch)]
        previous == last_model_path[kind]
        written == WriteFile(ckpt_files, filepath, kind)
    IN  /\ last_model_path' = [last_model_path EXCEPT ![kind] = filepath]
        /\ ckpt_files' = IF previous # NoLastPath /\ previous # filepath
                         THEN RemoveFile(written, previous)
                         ELSE written

Min(a, b) == IF a < b THEN a ELSE b

\* the epochs of the fit loop that are followed
FitEpochs == Min(trainer.max_epochs, MaxEpochs)

\* train_time_interval has elapsed during an epoch: every_n_checkpoint fires
TrainTimeIntervalElapsed ==
    /\ pc = "fit"
    /\ epoch < FitEpochs
    /\ IsInstalled("every_n")
    /\ SaveLast("every_n")
    /\ UNCHANGED <<pc, args, tree, file, answer, config, err, logger, call,
                   trainer, dm, mdl, epoch>>

\* a training epoch ends: epoch_end_checkpoint fires (save_on_train_epoch_end)
TrainEpochEnd ==
    /\ pc = "fit"
    /\ epoch < FitEpochs
    /\ IF IsInstalled("epoch_end")
       THEN SaveLast("epoch_end")
       ELSE UNCHANGED <<ckpt_files, last_model_path>>
    /\ epoch' = epoch + 1
    /\ UNCHANGED <<pc, args, tree, file, answer, config, err, logger, call,
                   trainer, dm, mdl>>

\* trainer.fit returns
FitReturn ==
    /\ pc = "fit"
    /\ epoch = FitEpochs
    /\ pc' = "done"
    /\ UNCHANGED <<args, tree, file, answer, config, err, logger, call,
                   trainer, dm, mdl, epoch, ckpt_files, last_model_path>>

----------------------------------------------------------------------------
(* setup_trainer called directly, over all of its arguments *)

Prefix(k) == [i \in 1..k |-> i - 1]

GpuSpecs ==
    {GpuInt(n) : n \in -1..MaxGpus} \cup {GpuList(Prefix(k)) : k \in 0..MaxGpus}

ValidationIntervals == {PyNone, PyFloatTenths(5), PyInt(100)}

CheckpointIntervals == {PyInt(30)}

CheckpointDirs == {NoPathStr, AbsPath(<<"data", "ckpt">>), RelPath(<<"ckpt">>)}

ExperimentNames == {"exp"}

WandbIds == {"abc123", "k7x2"}

Uuids == {"6fa4"}

Loggers == {NoLogger} \cup {WandbLogger(n, i) : n \in ExperimentNames, i \in WandbIds}

NoCall ==
    [gpus |-> GpuInt(0), test |-> FALSE, should_log |-> FALSE,
     should_checkpoint |-> FALSE, logger |-> NoLogger,
     checkpoint_interval |-> PyNone, checkpoint_dir |-> NoPathStr,
     validation_interval |-> PyNone]

Calls ==
    [gpus : GpuSpecs, test : BOOLEAN, should_log : BOOLEAN,
     should_checkpoint : BOOLEAN, logger : Loggers,
     checkpoint_interval : CheckpointIntervals, checkpoint_dir : CheckpointDirs,
     validation_interval : ValidationIntervals]

NoArgs ==
    [test |-> FALSE, no_logging |-> FALSE, no_checkpointing |-> FALSE,
     allow_dirty_repo |-> FALSE, yaml_config |-> "config.yaml"]

NoTree == [modified |-> FALSE, untracked |-> FALSE]

NoFile == [kind |-> "none", content |-> EmptyDict]

NoCollaborator == [built |-> FALSE, kwargs |-> EmptyDict]

NoLastPaths == [every_n |-> NoLastPath, epoch_end |-> NoLastPath]

InitTrainer ==
    /\ pc = "call_setup_trainer"
    /\ call \in Calls
    /\ args = NoArgs
    /\ tree = NoTree
    /\ file = NoFile
    /\ answer = ""
    /\ config = EmptyDict
    /\ err = NoErr
    /\ logger = call.logger
    /\ trainer = NoTrainer
    /\ dm = NoCollaborator
    /\ mdl = NoCollaborator
    /\ epoch = 0
    /\ ckpt_files = {}
    /\ last_model_path = NoLastPaths

\* setup_trainer(**call), then the trainer it returns is fitted
CallSetupTrainer ==
    /\ pc = "call_setup_trainer"
    /\ \E uuid \in Uuids :
          LET r == SetupTrainer(call, uuid)
          IN  IF r.raised # ""
              THEN /\ pc' = "error"
                   /\ err' = Raise(r.raised, "setup_trainer", "")
                   /\ UNCHANGED trainer
              ELSE /\ pc' = "fit"
                   /\ trainer' = r.trainer
                   /\ UNCHANGED err
    /\ UNCHANGED <<args, tree, file, answer, config, logger, call, dm, mdl,
                   epoch, ckpt_files, last_model_path>>

NextTrainer ==
    \/ CallSetupTrainer
    \/ TrainTimeIntervalElapsed
    \/ TrainEpochEnd
    \/ FitReturn

SpecTrainer == InitTrainer /\ [][NextTrainer]_vars

----------------------------------------------------------------------------
(* parse_args_and_configuration *)

\* what the user may type at the prompt
Inputs == {"y", "YES", "n", "No", "maybe"}

\* str.lower() on the inputs
Lower(raw) ==
    CASE raw = "YES" -> "yes"
      [] raw = "No" -> "no"
      [] OTHER -> raw

\* while answer not in ["y", "yes", "n", "no"]
IsValidAnswer(a) == a \in {"y", "yes", "n", "no"}

\* return answer in ["y", "yes"]
IsAffirmative(a) == a \in {"y", "yes"}

IsDirty_WithUntracked(t) == t.modified \/ t.untracked

\* repo.is_dirty(untracked_files=False)
IsDirty(t) == t.modified

ReproducibilityError == Raise("Exception", "check_for_uncommitted_changes", "")

\* check_for_uncommitted_changes(), then on to reading the file
CheckForUncommittedChanges ==
    IF IsDirty(tree)
    THEN /\ pc' = "error"
         /\ err' = ReproducibilityError
    ELSE /\ pc' = "load"
         /\ UNCHANGED err

\* if args.test: args.no_logging = True
GateTest ==
    /\ pc = "gate"
    /\ args.test
    /\ args' = [args EXCEPT !.no_logging = TRUE]
    /\ pc' = "load"
    /\ UNCHANGED <<tree, file, answer, config, err, logger, call, trainer, dm, mdl,
                   epoch, ckpt_files, last_model_path>>

\* elif args.allow_dirty_repo and confirm_allow_dirty_repo(): the call is entered
GateAsk ==
    /\ pc = "gate"
    /\ ~args.test
    /\ args.allow_dirty_repo
    /\ answer' = ""
    /\ pc' = "confirm"
    /\ UNCHANGED <<args, tree, file, config, err, logger, call, trainer, dm, mdl,
                   epoch, ckpt_files, last_model_path>>

\* else: check_for_uncommitted_changes()
GateCheck ==
    /\ pc = "gate"
    /\ ~args.test
    /\ ~args.allow_dirty_repo
    /\ CheckForUncommittedChanges
    /\ UNCHANGED <<args, tree, file, answer, config, logger, call, trainer, dm, mdl,
                   epoch, ckpt_files, last_model_path>>

\* one turn of confirm_allow_dirty_repo's loop, and what follows its return
Confirm ==
    /\ pc = "confirm"
    /\ \E raw \in Inputs :
          /\ answer' = Lower(raw)
          /\ IF ~IsValidAnswer(answer')
             THEN UNCHANGED <<pc, args, err>>
             ELSE IF IsAffirmative(answer')
             THEN /\ args' = [args EXCEPT !.no_logging = TRUE]
                  /\ pc' = "load"
                  /\ UNCHANGED err
             ELSE /\ CheckForUncommittedChanges
                  /\ UNCHANGED args
    /\ UNCHANGED <<tree, file, config, logger, call, trainer, dm, mdl,
                   epoch, ckpt_files, last_model_path>>

NodeName == "node0"

ResolveConfiguration_FileWins(node, configuration, arguments) ==
    DictMerge(DictMerge([training_node_name |-> node], arguments), configuration)

\* {"training_node_name": ..., **configuration, **vars(args)}
ResolveConfiguration(node, configuration, arguments) ==
    DictMerge(DictMerge([training_node_name |-> node], configuration), arguments)

RequiredKeys == {"experiment_name", "gpus", "checkpoint_interval", "validation_interval"}

RunGpuSpecs == {GpuInt(0), GpuInt(1), GpuList(Prefix(2))}

SharedParameters == {NoneDict, Dict([num_robot_points |-> 2048])}

DataModuleParameters == {NoneDict, Dict([num_robot_points |-> 1024])}

TrainingModelParameters ==
    {Dict([collision_loss_weight |-> 5]), Dict([num_robot_points |-> 1024])}

\* the mappings a configuration file may hold
Mappings ==
    { LET full == [experiment_name |-> name, gpus |-> g, batch_size |-> PyInt(64),
                   checkpoint_interval |-> ci, save_checkpoint_dir |-> cd,
                   validation_interval |-> PyFloatTenths(5),
                   shared_parameters |-> sp, data_module_parameters |-> dp,
                   training_model_parameters |-> mp]
          kept == [k \in (DOMAIN full) \ missing |-> full[k]]
      IN  IF nl = "absent" THEN kept ELSE [no_logging |-> (nl = "true")] @@ kept :
        name \in ExperimentNames, g \in RunGpuSpecs, ci \in CheckpointIntervals,
        cd \in {NoPathStr, AbsPath(<<"data", "ckpt">>)},
        sp \in SharedParameters, dp \in DataModuleParameters,
        mp \in TrainingModelParameters,
        nl \in {"absent", "false", "true"},
        missing \in {m \in SUBSET RequiredKeys : Cardinality(m) <= MaxMissing} }

Files ==
    {[kind |-> "malformed", content |-> EmptyDict],
     [kind |-> "scalar", content |-> EmptyDict]}
    \cup {[kind |-> "mapping", content |-> m] : m \in Mappings}

\* with open(args.yaml_config) as f: configuration = yaml.safe_load(f);
\* return {...}
LoadConfiguration ==
    /\ pc = "load"
    /\ \E f \in Files :
          /\ file' = f
          /\ CASE f.kind = "malformed" ->
                    /\ pc' = "error"
                    /\ err' = Raise("YAMLError", "yaml.safe_load", "")
                    /\ UNCHANGED config
               [] f.kind = "scalar" ->
                    /\ pc' = "error"
                    /\ err' = Raise("TypeError", "parse_args_and_configuration", "")
                    /\ UNCHANGED config
               [] OTHER ->
                    /\ pc' = "setup_logger"
                    /\ config' = ResolveConfiguration(NodeName, f.content, args)
                    /\ UNCHANGED err
    /\ UNCHANGED <<args, tree, answer, logger, call, trainer, dm, mdl,
                   epoch, ckpt_files, last_model_path>>

----------------------------------------------------------------------------
(* run *)

\* the first of `keys` that config[...] raises KeyError on, or ""
FirstMissing(keys) ==
    LET absent == {i \in DOMAIN keys : keys[i] \notin DOMAIN config}
    IN  IF absent = {} THEN ""
        ELSE keys[CHOOSE i \in absent : \A j \in absent : i <= j]

\* setup_logger(should_log, experiment_name, config_values), with id the
\* identifier the tracking service issues to a new session
SetupLogger(should_log, experiment_name, id) ==
    IF ~should_log THEN NoLogger ELSE WandbLogger(experiment_name, id)

\* lines 196-202
RunSetupLogger ==
    /\ pc = "setup_logger"
    /\ IF FirstMissing(<<"experiment_name", "no_logging">>) # ""
       THEN /\ pc' = "error"
            /\ err' = Raise("KeyError", "run:setup_logger",
                            FirstMissing(<<"experiment_name", "no_logging">>))
            /\ UNCHANGED logger
       ELSE /\ \E id \in WandbIds :
                  logger' = SetupLogger(~config.no_logging, config.experiment_name, id)
            /\ pc' = "setup_trainer"
            /\ UNCHANGED err
    /\ UNCHANGED <<args, tree, file, answer, config, call, trainer, dm, mdl,
                   epoch, ckpt_files, last_model_path>>

SetupTrainerKeys ==
    <<"gpus", "test", "no_logging", "no_checkpointing", "checkpoint_interval",
      "save_checkpoint_dir", "validation_interval">>

\* lines 204-213
RunSetupTrainer ==
    /\ pc = "setup_trainer"
    /\ IF FirstMissing(SetupTrainerKeys) # ""
       THEN /\ pc' = "error"
            /\ err' = Raise("KeyError", "run:setup_trainer", FirstMissing(SetupTrainerKeys))
            /\ UNCHANGED <<call, trainer>>
       ELSE /\ call' = [gpus |-> config.gpus,
                        test |-> config.test,
                        should_log |-> ~config.no_logging,
                        should_checkpoint |-> ~config.no_checkpointing,
                        logger |-> logger,
                        checkpoint_interval |-> config.checkpoint_interval,
                        checkpoint_dir |-> config.save_checkpoint_dir,
                        validation_interval |-> config.validation_interval]
            /\ \E uuid \in Uuids :
                  LET r == SetupTrainer(call', uuid)
                  IN  IF r.raised # ""
                      THEN /\ pc' = "error"
                           /\ err' = Raise(r.raised, "setup_trainer", "")
                           /\ UNCHANGED trainer
                      ELSE /\ pc' = "data_module"
                           /\ trainer' = r.trainer
                           /\ UNCHANGED err
    /\ UNCHANGED <<args, tree, file, answer, config, logger, dm, mdl,
                   epoch, ckpt_files, last_model_path>>

\* config[key] or {}
OrEmpty(v) == IF v.t = "None" THEN EmptyDict ELSE v.d

\* f(**first, **a, **b): a keyword given twice is a TypeError
CallWithKeywords(first, a, b) ==
    IF \/ DOMAIN first \cap DOMAIN a # {}
       \/ DOMAIN first \cap DOMAIN b # {}
       \/ DOMAIN a \cap DOMAIN b # {}
    THEN [raised |-> "TypeError", kwargs |-> EmptyDict]
    ELSE [raised |-> "", kwargs |-> DictMerge(DictMerge(first, a), b)]

DataModuleKeys == <<"batch_size", "shared_parameters", "data_module_parameters">>

\* lines 214-218
RunConstructDataModule ==
    /\ pc = "data_module"
    /\ IF FirstMissing(DataModuleKeys) # ""
       THEN /\ pc' = "error"
            /\ err' = Raise("KeyError", "run:DataModule", FirstMissing(DataModuleKeys))
            /\ UNCHANGED dm
       ELSE LET r == CallWithKeywords([batch_size |-> config.batch_size],
                                      OrEmpty(config.shared_parameters),
                                      OrEmpty(config.data_module_parameters))
            IN  IF r.raised # ""
                THEN /\ pc' = "error"
                     /\ err' = Raise(r.raised, "DataModule", "")
                     /\ UNCHANGED dm
                ELSE /\ pc' = "model"
                     /\ dm' = [built |-> TRUE, kwargs |-> r.kwargs]
                     /\ UNCHANGED err
    /\ UNCHANGED <<args, tree, file, answer, config, logger, call, trainer, mdl,
                   epoch, ckpt_files, last_model_path>>

ModelKeys == <<"shared_parameters", "training_model_parameters">>

\* lines 219-224; trainer.fit (line 225) is entered next
RunConstructModel ==
    /\ pc = "model"
    /\ IF FirstMissing(ModelKeys) # ""
       THEN /\ pc' = "error"
            /\ err' = Raise("KeyError", "run:TrainingMotionPolicyNetwork",
                            FirstMissing(ModelKeys))
            /\ UNCHANGED <<mdl, logger>>
       ELSE LET r == CallWithKeywords(EmptyDict,
                                      OrEmpty(config.shared_parameters),
                                      OrEmpty(config.training_model_parameters))
            IN  IF r.raised # ""
                THEN /\ pc' = "error"
                     /\ err' = Raise(r.raised, "TrainingMotionPolicyNetwork", "")
                     /\ UNCHANGED <<mdl, logger>>
                ELSE /\ pc' = "fit"
                     /\ mdl' = [built |-> TRUE, kwargs |-> r.kwargs]
                     /\ logger' = IF logger.t # "None"
                                  THEN [logger EXCEPT !.watching = TRUE]
                                  ELSE logger
                     /\ UNCHANGED err
    /\ UNCHANGED <<args, tree, file, answer, config, call, trainer, dm,
                   epoch, ckpt_files, last_model_path>>

Flags ==
    [test : BOOLEAN, no_logging : BOOLEAN, no_checkpointing : BOOLEAN,
     allow_dirty_repo : BOOLEAN, yaml_config : {"config.yaml"}]

Trees == [modified : BOOLEAN, untracked : BOOLEAN]

Init ==
    /\ pc = "gate"
    /\ args \in Flags
    /\ tree \in Trees
    /\ file = NoFile
    /\ answer = ""
    /\ config = EmptyDict
    /\ err = NoErr
    /\ logger = NoLogger
    /\ call = NoCall
    /\ trainer = NoTrainer
    /\ dm = NoCollaborator
    /\ mdl = NoCollaborator
    /\ epoch = 0
    /\ ckpt_files = {}
    /\ last_model_path = NoLastPaths

Next ==
    \/ GateTest
    \/ GateAsk
    \/ GateCheck
    \/ Confirm
    \/ LoadConfiguration
    \/ RunSetupLogger
    \/ RunSetupTrainer
    \/ RunConstructDataModule
    \/ RunConstructModel
    \/ TrainTimeIntervalElapsed
    \/ TrainEpochEnd
    \/ FitReturn

Spec == Init /\ [][Next]_vars

----------------------------------------------------------------------------
(* Properties *)

\* parse_args_and_configuration has returned its mapping
ConfigurationReturned == "no_logging" \in DOMAIN config

\* C1: whenever the test flag is set, the configuration that
\* parse_args_and_configuration returns has no_logging = true, whatever the
\* file, the other flags and the working tree are, so that run() passes
\* should_log = false and no logger is ever constructed.
C1_TestDisablesLogging ==
    args.test =>
        /\ ConfigurationReturned => config.no_logging = TRUE
        /\ logger.t = "None"
        /\ call # NoCall => ~call.should_log

\* a test run whose file asks for logging, on a modified tree, past setup_logger
C1_Witness ==
    /\ args.test
    /\ pc = "data_module"
    /\ "no_logging" \in DOMAIN file.content
    /\ file.content.no_logging = FALSE
    /\ tree.modified
    /\ args.allow_dirty_repo
    /\ logger.t = "None"

\* C2: with the test flag unset, the step that resolves the gate ends in the
\* reproducibility error exactly when the tree has uncommitted tracked changes
\* and the override was not accepted (allow-dirty-repo unset, or a negative
\* answer); otherwise it proceeds to reading the file. An accepted override
\* forces no_logging to true whatever the tree is; a run that proceeds
\* without one leaves no_logging (and every flag) as given.
C2_GateAbortsIffDirtyAndNotAccepted ==
    [][(/\ ~args.test
        /\ pc \in {"gate", "confirm"}
        /\ pc' \notin {"gate", "confirm"})
       => LET accepted == args.allow_dirty_repo /\ answer' \in {"y", "yes"}
              aborts == pc' = "error" /\ err' = ReproducibilityError
          IN  /\ aborts <=> (tree.modified /\ ~accepted)
              /\ ~aborts <=> (pc' = "load" /\ err' = NoErr)
              /\ accepted => args'.no_logging
              /\ (~accepted /\ ~aborts) => args' = args]_vars

\* modified tree, allow-dirty-repo set, answer "No": the run has aborted
C2_Witness ==
    /\ ~args.test
    /\ args.allow_dirty_repo
    /\ tree.modified
    /\ answer = "no"
    /\ pc = "error"
    /\ err = ReproducibilityError

FatalPreRunError ==
    \/ err = ReproducibilityError
    \/ err.type = "YAMLError"
    \/ err.type = "KeyError" /\ err.key \in RequiredKeys

\* C3: when a fatal pre-run error (dirty repository, unparsable file, missing
\* required key) ends the run, no logger, trainer, data module or model has
\* been constructed.
C3_FatalErrorBeforeAnyCollaborator ==
    (pc = "error" /\ FatalPreRunError) =>
        /\ logger.t = "None"
        /\ ~trainer.built
        /\ ~dm.built
        /\ ~mdl.built

DeviceCount(gpus) == IF gpus.t = "list" THEN Len(gpus.ids) ELSE gpus.n

\* C4: the trainer setup_trainer returns carries no strategy argument when
\* the device count (the integer, or the length of the list) is at most 1,
\* and the data-parallel strategy with find_unused_parameters = False when
\* it is more than 1, whatever the test flag is.
C4_StrategyByDeviceCount ==
    trainer.built =>
        /\ DeviceCount(call.gpus) <= 1 => "strategy" \notin DOMAIN trainer.kwargs
        /\ DeviceCount(call.gpus) > 1 =>
              /\ "strategy" \in DOMAIN trainer.kwargs
              /\ trainer.kwargs.strategy =
                    [name |-> "DDPStrategy", find_unused_parameters |-> FALSE]

\* gpus = [0, 1, 2, 3] in a test run: data-parallel
C4_Witness ==
    /\ trainer.built
    /\ call.gpus = GpuList(<<0, 1, 2, 3>>)
    /\ call.test
    /\ "strategy" \in DOMAIN trainer.kwargs

\* C5: a device count that is an integer <= 0 is rejected: no trainer is
\* returned for it.
C5_NonPositiveDeviceCountRejected ==
    (call # NoCall /\ call.gpus.t = "int" /\ call.gpus.n <= 0) => ~trainer.built

BothInstalled == IsInstalled("every_n") /\ IsInstalled("epoch_end")

\* C6: with checkpointing enabled the trainer carries both triggers, on the
\* same directory, with names for the latest artifact that differ in every
\* epoch; and throughout the fit, whatever the order of the firings, the
\* latest artifact of each trigger is on disk as that trigger wrote it.
C6_TriggersKeepTheirLatestArtifact ==
    (trainer.built /\ call.should_checkpoint) =>
        /\ BothInstalled
        /\ CallbackOf("every_n").dirpath = CallbackOf("epoch_end").dirpath
        /\ \A e \in 0..MaxEpochs :
              FormatCheckpointName(CallbackOf("every_n").CHECKPOINT_NAME_LAST, e)
                # FormatCheckpointName(CallbackOf("epoch_end").CHECKPOINT_NAME_LAST, e)
        /\ \A kind \in {"every_n", "epoch_end"} :
              last_model_path[kind] # NoLastPath =>
                  [path |-> last_model_path[kind], writer |-> kind] \in ckpt_files

\* both triggers have fired, the epoch-end one in two epochs, the interval
\* one after it
C6_Witness ==
    /\ epoch = 2
    /\ last_model_path["every_n"] # NoLastPath
    /\ last_model_path["epoch_end"].name = <<"epoch-", "epoch=1", "-end">>
    /\ Cardinality(ckpt_files) = 2

\* C7: with checkpointing disabled the trainer has no checkpoint directory,
\* no checkpoint trigger among its callbacks and checkpoint persistence
\* switched off, whatever the logging flag is, and no artifact is written.
C7_DisabledCheckpointingPersistsNothing ==
    (trainer.built /\ ~call.should_checkpoint) =>
        /\ trainer.dirpath = NoDirPath
        /\ trainer.callbacks = <<>>
        /\ ~trainer.enable_checkpointing
        /\ ckpt_files = {}

\* the experiment identity setup_trainer uses
ExperimentIdentities == WandbIds \cup Uuids

\* C8: with checkpointing enabled (and a logger whenever logging is on),
\* setup_trainer returns a trainer whose directory is the explicit root,
\* resolved, joined with the experiment identity, or, without an explicit
\* root, PROJECT_ROOT/checkpoints joined with the experiment identity.
C8_DirectoryUnderRoot ==
    (/\ pc # "call_setup_trainer"
     /\ call.should_checkpoint
     /\ call.should_log => call.logger.t # "None") =>
        /\ trainer.built
        /\ \E id \in ExperimentIdentities :
              trainer.dirpath =
                  IF call.checkpoint_dir.t # "None"
                  THEN Resolve(call.checkpoint_dir) \o <<id>>
                  ELSE PROJECT_ROOT.parts \o <<"checkpoints", id>>

\* C9: in test mode the trainer is limited to 10 training batches and 3
\* validation batches and validates every 2, whatever cadence was requested;
\* otherwise it has no batch limits and the requested cadence, or none when
\* none was requested.
C9_TestModeCapsAndCadence ==
    trainer.built =>
        IF call.test
        THEN /\ {"limit_train_batches", "limit_val_batches", "val_check_interval"}
                    \subseteq DOMAIN trainer.kwargs
             /\ trainer.kwargs.limit_train_batches = 10
             /\ trainer.kwargs.limit_val_batches = 3
             /\ trainer.kwargs.val_check_interval = PyInt(2)
        ELSE /\ "limit_train_batches" \notin DOMAIN trainer.kwargs
             /\ "limit_val_batches" \notin DOMAIN trainer.kwargs
             /\ IF call.validation_interval.t = "None"
                THEN "val_check_interval" \notin DOMAIN trainer.kwargs
                ELSE /\ "val_check_interval" \in DOMAIN trainer.kwargs
                     /\ trainer.kwargs.val_check_interval = call.validation_interval

\* test mode with a requested cadence of 0.5
C9_Witness ==
    /\ trainer.built
    /\ call.test
    /\ call.validation_interval = PyFloatTenths(5)
    /\ trainer.kwargs.val_check_interval = PyInt(2)

\* run() has got as far as constructing the data module
DataModuleCalled ==
    \/ pc \in {"model", "fit", "done"}
    \/ pc = "error" /\ err.at \in {"DataModule", "TrainingMotionPolicyNetwork"}

ModelCalled ==
    \/ pc \in {"fit", "done"}
    \/ pc = "error" /\ err.at = "TrainingMotionPolicyNetwork"

\* C10: each collaborator is constructed from the shared parameters merged
\* with its own, its own value winning on a key in both, and a key in both
\* does not make the construction fail.
C10_ComponentParametersOverrideShared ==
    /\ DataModuleCalled =>
          /\ dm.built
          /\ dm.kwargs =
                DictMerge(DictMerge([batch_size |-> config.batch_size],
                                    OrEmpty(config.shared_parameters)),
                          OrEmpty(config.data_module_parameters))
    /\ ModelCalled =>
          /\ mdl.built
          /\ mdl.kwargs =
                DictMerge(OrEmpty(config.shared_parameters),
                          OrEmpty(config.training_model_parameters))

====
